---- MODULE Spec2Model ----
(***************************************************************************)
(* A model of factorio-downloader (src/main.py): the version type and its  *)
(* text conversions, the marker file version.txt, the reconciliation       *)
(* decision of main(), and the fan-out of one download task per entry of   *)
(* args.distro under an asyncio.TaskGroup.                                 *)
(*                                                                         *)
(* Text is a sequence of one-character strings, so that parsing and        *)
(* formatting are computed, not assumed.                                   *)
(***************************************************************************)
EXTENDS Integers, Sequences, FiniteSets, TLC

(***************************************************************************)
(* Bounds of the model.                                                    *)
(***************************************************************************)
\* how many versions of VersionPool the inputs are drawn from
MaxVersions == 3
\* how many chunks a response body is streamed in, at most
MaxChunks == 1
\* how many members of FactorioDistro, in declaration order, the default of
\* --distro holds
MaxDistros == 2
\* how long a text handed to FactorioVersion.from_str is, at most
MaxTextLen == 6
\* how many runs in a row are followed
MaxRuns == 2

(***************************************************************************)
(* Text: characters, Python's str.split, int() and str().                  *)
(***************************************************************************)
DigitChars == <<"0", "1", "2", "3", "4", "5", "6", "7", "8", "9">>

Whitespace == {" ", "\n", "\t"}

IsDigit(c) == \E i \in 1..Len(DigitChars) : DigitChars[i] = c

DigitVal(c) == (CHOOSE i \in 1..Len(DigitChars) : DigitChars[i] = c) - 1

\* str(n) for an integer n
RECURSIVE NatToText(_)
NatToText(n) ==
    IF n < 10 THEN <<DigitChars[n + 1]>>
    ELSE NatToText(n \div 10) \o <<DigitChars[(n % 10) + 1]>>

IntToText(n) == IF n < 0 THEN <<"-">> \o NatToText(-n) ELSE NatToText(n)

\* s.split(sep) for a one-character separator: the fields between the
\* separators, empty fields included
RECURSIVE SplitOn(_, _)
SplitOn(s, sep) ==
    IF \A i \in 1..Len(s) : s[i] # sep THEN <<s>>
    ELSE LET k == CHOOSE i \in 1..Len(s) :
                      s[i] = sep /\ \A j \in 1..(i - 1) : s[j] # sep
         IN  <<SubSeq(s, 1, k - 1)>> \o SplitOn(SubSeq(s, k + 1, Len(s)), sep)

\* s.strip()
RECURSIVE Strip(_)
Strip(s) ==
    IF s = <<>> THEN s
    ELSE IF s[1] \in Whitespace THEN Strip(Tail(s))
    ELSE IF s[Len(s)] \in Whitespace THEN Strip(SubSeq(s, 1, Len(s) - 1))
    ELSE s

\* s.split(): the maximal runs of non-whitespace characters
RECURSIVE SplitWhitespace(_)
SplitWhitespace(s) ==
    IF s = <<>> THEN <<>>
    ELSE IF s[1] \in Whitespace THEN SplitWhitespace(Tail(s))
    ELSE LET stops == {i \in 1..Len(s) : s[i] \in Whitespace}
             k == IF stops = {} THEN Len(s) + 1
                  ELSE CHOOSE i \in stops : \A j \in stops : i <= j
         IN  <<SubSeq(s, 1, k - 1)>> \o SplitWhitespace(SubSeq(s, k, Len(s)))

\* the digits of an int() literal after its sign: digits, single underscores
\* allowed between two digits
IsIntBody(b) ==
    /\ b # <<>>
    /\ IsDigit(b[1])
    /\ IsDigit(b[Len(b)])
    /\ \A i \in 1..Len(b) : IsDigit(b[i]) \/ b[i] = "_"
    /\ \A i \in 1..(Len(b) - 1) : ~(b[i] = "_" /\ b[i + 1] = "_")

RECURSIVE BodyVal(_)
BodyVal(b) ==
    IF b = <<>> THEN 0
    ELSE IF b[Len(b)] = "_" THEN BodyVal(SubSeq(b, 1, Len(b) - 1))
    ELSE 10 * BodyVal(SubSeq(b, 1, Len(b) - 1)) + DigitVal(b[Len(b)])

\* does int(s) return (TRUE) or raise ValueError (FALSE)
IntOK(s) ==
    LET t == Strip(s)
    IN  /\ t # <<>>
        /\ IF t[1] \in {"+", "-"} THEN IsIntBody(Tail(t)) ELSE IsIntBody(t)

\* int(s) where IntOK(s)
IntVal(s) ==
    LET t == Strip(s)
    IN  IF t[1] = "-" THEN -BodyVal(Tail(t))
        ELSE IF t[1] = "+" THEN BodyVal(Tail(t))
        ELSE BodyVal(t)

(***************************************************************************)
(* FactorioVersion                                                         *)
(***************************************************************************)
FactorioVersion(a, b, c) == [major |-> a, minor |-> b, patch |-> c]

\* the literal "latest" as a value of requested_version
LATEST == [latest |-> TRUE]

\* Python's None
None == [none |-> TRUE]

\* FactorioVersion.from_str(s) returns (TRUE) or raises ValueError (FALSE)
from_str_ok(s) ==
    LET fields == SplitOn(s, ".")
    IN  /\ \A i \in 1..Len(fields) : IntOK(fields[i])
        /\ Len(fields) = 3

\* FactorioVersion.from_str(s) where from_str_ok(s)
from_str(s) ==
    LET fields == SplitOn(s, ".")
    IN  FactorioVersion(IntVal(fields[1]), IntVal(fields[2]), IntVal(fields[3]))

\* FactorioVersion.__str__
VersionStr(v) ==
    IntToText(v.major) \o <<".">> \o IntToText(v.minor) \o <<".">>
        \o IntToText(v.patch)

\* a comparison that forgets the patch component
VersionLessNoPatch(a, b) ==
    \/ a.major < b.major
    \/ a.major = b.major /\ a.minor < b.minor

\* a < b on the named tuples: Python's tuple comparison
VersionLess(a, b) ==
    \/ a.major < b.major
    \/ a.major = b.major /\ a.minor < b.minor
    \/ a.major = b.major /\ a.minor = b.minor /\ a.patch < b.patch

\* the text "latest"
LatestText == <<"l", "a", "t", "e", "s", "t">>

\* str() of a value of requested_version or downloaded_version
ValueStr(x) == IF x = LATEST THEN LatestText ELSE VersionStr(x)

(***************************************************************************)
(* Configuration and environment                                           *)
(***************************************************************************)
\* class FactorioDistro, in declaration order
FactorioDistro == <<"win64", "win64-manual", "osx", "linux64">>

EXTENSION_FOR_DISTRO ==
    [d \in {"win64", "win64-manual", "osx", "linux64"} |->
        CASE d = "win64" -> "exe"
          [] d = "win64-manual" -> "zip"
          [] d = "osx" -> "dmg"
          [] d = "linux64" -> "tar.gz"]

\* the default of --distro (line 125), cut to MaxDistros members
DefaultDistros ==
    SubSeq(FactorioDistro, 1,
           IF MaxDistros < Len(FactorioDistro) THEN MaxDistros
           ELSE Len(FactorioDistro))

DistroSet == {DefaultDistros[i] : i \in 1..Len(DefaultDistros)}

\* the default of --build
build == "expansion"

\* save_file and download_file of download(distro); download_dir is save_dir
\* unless --tempdir is given, and the two names never coincide in one
\* directory because of the ".tmp" suffix
save_file(d) == [name |-> <<d, EXTENSION_FOR_DISTRO[d]>>, tmp |-> FALSE]

download_file(d) == [name |-> <<d, EXTENSION_FOR_DISTRO[d]>>, tmp |-> TRUE]

Paths == {save_file(d) : d \in DistroSet} \cup {download_file(d) : d \in DistroSet}

\* the versions the inputs are drawn from
VersionPool ==
    <<FactorioVersion(1, 1, 0), FactorioVersion(1, 1, 1),
      FactorioVersion(1, 2, 0), FactorioVersion(2, 0, 10),
      FactorioVersion(0, 17, 79)>>

Versions ==
    {VersionPool[i] : i \in 1..(IF MaxVersions < Len(VersionPool)
                                 THEN MaxVersions ELSE Len(VersionPool))}

NoFile == [exists |-> FALSE, text |-> <<>>]

File(t) == [exists |-> TRUE, text |-> t]

\* version.txt as the program finds it: absent, written by an earlier run
\* (line 249 writes str(version) or "latest", and a newline), or empty
MarkerFiles ==
    {NoFile} \cup {File(VersionStr(v) \o <<"\n">>) : v \in Versions}
        \cup {File(LatestText \o <<"\n">>), File(<<>>)}

\* --version: the default "latest", a version triple, or a malformed triple
VersionArgs ==
    {LatestText} \cup {VersionStr(v) : v \in Versions} \cup {<<"1", ".", "2">>}

\* what the latest-releases endpoint holds for the build: a version string,
\* or no usable answer
Remotes ==
    {[ok |-> TRUE, text |-> VersionStr(v)] : v \in Versions}
        \cup {[ok |-> FALSE, text |-> <<>>]}

\* how a lookup with no usable answer fails: session.get raises, resp.json()
\* raises, the key is missing, or the string is no version
LookupErrors == {"ClientError", "ContentTypeError", "KeyError", "ValueError"}

\* args.distro when -d is given once: action="append" appends the value to
\* the default list (lines 124-125)
AppendedDistros == DefaultDistros \o <<"win64">>

(***************************************************************************)
(* The file system of the artifacts: directory entries name inodes, an     *)
(* open file keeps its inode and its own offset.  Inode 0 is "no file";    *)
(* the inode a task creates carries the task's index, the files found on   *)
(* disk carry negative numbers.                                            *)
(***************************************************************************)
NoInode == 0

EmptyDir == [p \in Paths |-> NoInode]

\* the artifact directory as the program finds it: empty, or with what an
\* earlier failed run left behind an older artifact
Disks ==
    {[dirent |-> EmptyDir, isize |-> <<>>],
     [dirent |-> [EmptyDir EXCEPT ![save_file("win64")] = -1,
                                  ![download_file("win64")] = -2],
      isize |-> [n \in {-1, -2} |-> IF n = -1 THEN 2 ELSE 1]]}

\* the sizes of the inodes still named by a directory entry or an open file
Live(dir, sz, fds) ==
    LET used == ({dir[p] : p \in Paths} \cup {fds[i] : i \in DOMAIN fds})
                    \ {NoInode}
    IN  [n \in (DOMAIN sz) \cap used |-> sz[n]]

\* path.unlink(missing_ok=True)
Unlinked(dir, p) == [dir EXCEPT ![p] = NoInode]

(***************************************************************************)
(* State                                                                   *)
(***************************************************************************)
VARIABLES
    version_str,         \* args.version
    distros,             \* args.distro
    remote,              \* the latest-releases endpoint's answer for build
    version_file,        \* save_dir / "version.txt"
    marker0,             \* version.txt as it was when the run began
    dirent,              \* the artifact paths of save_dir and download_dir
    isize,               \* inode -> bytes
    pc,                  \* main(): "main", "unlink", "spawn", "join", "exited"
    requested_version,   \* main's local, LATEST or a version
    downloaded_version,  \* main's local, None or a version
    latest_version,      \* main's local, None until line 179 assigns it
    exit_code,           \* <<>> while running, <<status>> once exited
    error,               \* the exception that left main(), or "none"
    task_pc,             \* per task: created, get, stream, done, failed, cancelled
    download_url,        \* per task: the URL of line 217
    tfd,                 \* per task: the inode of f, NoInode when closed
    toff,                \* per task: the offset of f
    advanced,            \* per task: the sum of progress.update(advance=...)
    marker_writes        \* how many times line 249 has run

vars ==
    <<version_str, distros, remote, version_file, marker0, dirent, isize, pc,
      requested_version, downloaded_version, latest_version, exit_code, error,
      task_pc, download_url, tfd, toff, advanced, marker_writes>>

inputs == <<version_str, distros, remote, marker0>>

locals == <<requested_version, downloaded_version, latest_version>>

tasks == <<task_pc, download_url, tfd, toff, advanced>>

disk == <<dirent, isize>>

\* every input with the default list of platforms
InitDefault ==
    /\ version_str \in VersionArgs
    /\ distros = DefaultDistros
    /\ remote \in Remotes
    /\ version_file \in MarkerFiles

\* the runs with -d win64: "latest" or an explicit version, no marker or an
\* older one
InitAppended ==
    /\ version_str \in {LatestText, VersionStr(VersionPool[2])}
    /\ distros = AppendedDistros
    /\ remote = [ok |-> TRUE, text |-> VersionStr(VersionPool[2])]
    /\ version_file \in {NoFile, File(VersionStr(VersionPool[1]) \o <<"\n">>)}

Init ==
    /\ InitDefault \/ InitAppended
    /\ marker0 = version_file
    /\ \E d \in Disks : dirent = d.dirent /\ isize = d.isize
    /\ pc = "main"
    /\ requested_version = None
    /\ downloaded_version = None
    /\ latest_version = None
    /\ exit_code = <<>>
    /\ error = "none"
    /\ task_pc = <<>>
    /\ download_url = <<>>
    /\ tfd = <<>>
    /\ toff = <<>>
    /\ advanced = <<>>
    /\ marker_writes = 0

(***************************************************************************)
(* Reconciliation: lines 163-197                                           *)
(***************************************************************************)
\* a reader without the is_file() test of line 90: read_text() raises
get_downloaded_version_unchecked(f) ==
    IF ~f.exists THEN [err |-> "FileNotFoundError", val |-> None]
    ELSE LET tokens == SplitWhitespace(f.text)
         IN  IF tokens = <<>> THEN [err |-> "IndexError", val |-> None]
             ELSE LET version_text == Strip(tokens[1])
                  IN  IF from_str_ok(version_text)
                      THEN [err |-> "none", val |-> from_str(version_text)]
                      ELSE [err |-> "ValueError", val |-> None]

\* get_downloaded_version(version_file): the value returned, or the
\* exception raised (split()[0] of a blank file is an IndexError)
get_downloaded_version(f) ==
    IF ~f.exists THEN [err |-> "none", val |-> None]
    ELSE LET tokens == SplitWhitespace(f.text)
         IN  IF tokens = <<>> THEN [err |-> "IndexError", val |-> None]
             ELSE LET version_text == Strip(tokens[1])
                  IN  IF from_str_ok(version_text)
                      THEN [err |-> "none", val |-> from_str(version_text)]
                      ELSE [err |-> "ValueError", val |-> None]

\* get_latest_version(build) against the endpoint's answer r; e is the way
\* the lookup fails when the endpoint has no usable answer
get_latest_version(r, e) ==
    IF ~r.ok THEN [err |-> e, val |-> None]
    ELSE IF from_str_ok(r.text) THEN [err |-> "none", val |-> from_str(r.text)]
    ELSE [err |-> "ValueError", val |-> None]

\* sys.exit(n) as the status the host sees
ExitStatus(n) == n % 256

\* the status of a process that dies of an uncaught exception
UncaughtStatus == ExitStatus(1)

\* the status of line 191
AnomalyStatus == ExitStatus(-10)

Outcome(req, dl, lat, go, code, err) ==
    [requested |-> req, downloaded |-> dl, latest |-> lat,
     proceed |-> go, code |-> code, error |-> err]

\* main() goes on to line 199
Proceed(req, dl, lat) == Outcome(req, dl, lat, TRUE, ExitStatus(0), "none")

\* lines 178-191 without the test of line 180
DecideLatestNoEqual(dl, r, e) ==
    LET lat == get_latest_version(r, e)
    IN  IF lat.err # "none"
        THEN Outcome(LATEST, dl, None, FALSE, UncaughtStatus, lat.err)
        ELSE IF VersionLess(lat.val, dl)
        THEN Outcome(LATEST, dl, lat.val, FALSE, AnomalyStatus, "none")
        ELSE Proceed(LATEST, dl, lat.val)

\* lines 178-191 with a lookup whose failure is swallowed
DecideLatestIgnoresFailure(dl, r, e) ==
    LET lat == get_latest_version(r, e)
    IN  IF lat.err # "none"
        THEN Proceed(LATEST, dl, None)
        ELSE IF lat.val = dl
        THEN Outcome(LATEST, dl, lat.val, FALSE, ExitStatus(0), "none")
        ELSE IF VersionLess(lat.val, dl)
        THEN Outcome(LATEST, dl, lat.val, FALSE, AnomalyStatus, "none")
        ELSE Proceed(LATEST, dl, lat.val)

\* lines 178-191: "latest" is requested and version.txt holds the version dl
DecideLatest(dl, r, e) ==
    LET lat == get_latest_version(r, e)
    IN  IF lat.err # "none"
        THEN Outcome(LATEST, dl, None, FALSE, UncaughtStatus, lat.err)
        ELSE IF lat.val = dl
        THEN Outcome(LATEST, dl, lat.val, FALSE, ExitStatus(0), "none")
        ELSE IF VersionLess(lat.val, dl)
        THEN Outcome(LATEST, dl, lat.val, FALSE, AnomalyStatus, "none")
        ELSE Proceed(LATEST, dl, lat.val)

\* lines 192-197 with the sanity check of the "latest" branch added
DecideExplicitAnomalyCheck(req, dl) ==
    IF dl = req
    THEN Outcome(req, dl, None, FALSE, ExitStatus(0), "none")
    ELSE IF VersionLess(req, dl)
    THEN Outcome(req, dl, None, FALSE, AnomalyStatus, "none")
    ELSE Proceed(req, dl, None)

\* lines 192-197 without the test of line 192
DecideExplicitAlways(req, dl) == Proceed(req, dl, None)

\* lines 192-197: the version req is requested and version.txt holds dl
DecideExplicit(req, dl) ==
    IF dl = req
    THEN Outcome(req, dl, None, FALSE, ExitStatus(0), "none")
    ELSE Proceed(req, dl, None)

\* lines 163-197 of main(): the locals assigned, and whether main goes on to
\* download or leaves with a status
Decide(vs, f, r, e) ==
    IF vs # LatestText /\ ~from_str_ok(vs)
    THEN Outcome(None, None, None, FALSE, UncaughtStatus, "ValueError")
    ELSE
      LET req == IF vs = LatestText THEN LATEST ELSE from_str(vs)
          dl == get_downloaded_version(f)
      IN  IF dl.err # "none"
          THEN Outcome(req, None, None, FALSE, UncaughtStatus, dl.err)
          ELSE IF dl.val = None
          THEN Proceed(req, None, None)
          ELSE IF req = LATEST
          THEN DecideLatest(dl.val, r, e)
          ELSE DecideExplicit(req, dl.val)

Reconcile ==
    /\ pc = "main"
    /\ \E e \in LookupErrors :
         LET o == Decide(version_str, version_file, remote, e)
         IN  /\ requested_version' = o.requested
             /\ downloaded_version' = o.downloaded
             /\ latest_version' = o.latest
             /\ IF o.proceed
                THEN pc' = "unlink" /\ UNCHANGED <<exit_code, error>>
                ELSE /\ pc' = "exited"
                     /\ exit_code' = <<o.code>>
                     /\ error' = o.error
    /\ UNCHANGED <<inputs, version_file, disk, tasks, marker_writes>>

\* main() without line 210
UnlinkMarkerMissing ==
    /\ pc = "unlink"
    /\ pc' = "spawn"
    /\ UNCHANGED <<inputs, version_file, disk, locals, exit_code, error, tasks,
                   marker_writes>>

\* line 210: version_file.unlink(missing_ok=True)
UnlinkMarker ==
    /\ pc = "unlink"
    /\ version_file' = NoFile
    /\ pc' = "spawn"
    /\ UNCHANGED <<inputs, disk, locals, exit_code, error, tasks, marker_writes>>

(***************************************************************************)
(* Fan-out: lines 212-248.  A task runs from one await to the next without *)
(* interruption; the awaits are session.get and the read of each chunk.    *)
(***************************************************************************)
TaskIds == DOMAIN task_pc

\* lines 247-248: tg.create_task(download(distro)) for each entry of distros
CreateTasks ==
    /\ pc = "spawn"
    /\ task_pc' = [i \in 1..Len(distros) |-> "created"]
    /\ download_url' = [i \in 1..Len(distros) |-> None]
    /\ tfd' = [i \in 1..Len(distros) |-> NoInode]
    /\ toff' = [i \in 1..Len(distros) |-> 0]
    /\ advanced' = [i \in 1..Len(distros) |-> 0]
    /\ pc' = "join"
    /\ UNCHANGED <<inputs, version_file, disk, locals, exit_code, error,
                   marker_writes>>

\* DOWNLOAD_URL_TEMPLATE.format(version=..., build=..., distro=...)
DOWNLOAD_URL(version, b, distro) ==
    [version |-> ValueStr(version), build |-> b, distro |-> distro]

\* lines 216-229, up to the await of session.get: the event loop runs the
\* first step of the tasks in the order of their creation, before any
\* response can arrive
StartTask(i) ==
    /\ pc = "join"
    /\ task_pc[i] = "created"
    /\ \A j \in TaskIds : j < i => task_pc[j] # "created"
    /\ download_url' =
         [download_url EXCEPT ![i] = DOWNLOAD_URL(requested_version, build, distros[i])]
    /\ LET dir == Unlinked(dirent, download_file(distros[i]))
       IN  /\ dirent' = dir
           /\ isize' = Live(dir, isize, tfd)
    /\ task_pc' = [task_pc EXCEPT ![i] = "get"]
    /\ UNCHANGED <<inputs, version_file, pc, locals, exit_code, error, tfd, toff,
                   advanced, marker_writes>>

AllStarted == \A j \in TaskIds : task_pc[j] # "created"

\* the task ends with an exception; its file, if open, is closed by the
\* with statement of line 235
Failed(i) ==
    /\ task_pc' = [task_pc EXCEPT ![i] = "failed"]
    /\ tfd' = [tfd EXCEPT ![i] = NoInode]
    /\ isize' = Live(dirent, isize, [tfd EXCEPT ![i] = NoInode])

\* a task that removes save_file before it looks at the status
ResponseErrorAfterUnlink(i) ==
    /\ pc = "join"
    /\ AllStarted
    /\ task_pc[i] = "get"
    /\ task_pc' = [task_pc EXCEPT ![i] = "failed"]
    /\ dirent' = Unlinked(dirent, save_file(distros[i]))
    /\ isize' = Live(Unlinked(dirent, save_file(distros[i])), isize, tfd)
    /\ UNCHANGED <<inputs, version_file, pc, locals, exit_code, error,
                   download_url, tfd, toff, advanced, marker_writes>>

\* lines 229-232: session.get raises, or raise_for_status() does
ResponseError(i) ==
    /\ pc = "join"
    /\ AllStarted
    /\ task_pc[i] = "get"
    /\ Failed(i)
    /\ UNCHANGED <<inputs, version_file, dirent, pc, locals, exit_code, error,
                   download_url, toff, advanced, marker_writes>>

\* lines 229-235: a success status; download_file.open("wb") creates the
\* file, or truncates the one the path names
ResponseOK(i) ==
    /\ pc = "join"
    /\ AllStarted
    /\ task_pc[i] = "get"
    /\ LET p == download_file(distros[i])
           n == IF dirent[p] = NoInode THEN i ELSE dirent[p]
       IN  /\ dirent' = [dirent EXCEPT ![p] = n]
           /\ isize' = [m \in (DOMAIN isize) \cup {n} |->
                           IF m = n THEN 0 ELSE isize[m]]
           /\ tfd' = [tfd EXCEPT ![i] = n]
    /\ toff' = [toff EXCEPT ![i] = 0]
    /\ task_pc' = [task_pc EXCEPT ![i] = "stream"]
    /\ UNCHANGED <<inputs, version_file, pc, locals, exit_code, error,
                   download_url, advanced, marker_writes>>

\* lines 236-238: one chunk of len bytes is written at the file's offset
Chunk(i, len) ==
    /\ pc = "join"
    /\ task_pc[i] = "stream"
    /\ advanced[i] < MaxChunks
    /\ LET n == tfd[i]
           end == toff[i] + len
       IN  /\ isize' = [isize EXCEPT ![n] = IF end > @ THEN end ELSE @]
           /\ toff' = [toff EXCEPT ![i] = end]
    /\ advanced' = [advanced EXCEPT ![i] = @ + len]
    /\ UNCHANGED <<inputs, version_file, dirent, pc, locals, exit_code, error,
                   task_pc, download_url, tfd, marker_writes>>

\* line 236: the read of the next chunk raises (the connection breaks)
StreamError(i) ==
    /\ pc = "join"
    /\ task_pc[i] = "stream"
    /\ Failed(i)
    /\ UNCHANGED <<inputs, version_file, dirent, pc, locals, exit_code, error,
                   download_url, toff, advanced, marker_writes>>

\* lines 236-245 at the end of the body: f is closed, save_file is unlinked,
\* download_file is renamed to save_file (FileNotFoundError when the path
\* names no file any more)
Finish(i) ==
    /\ pc = "join"
    /\ task_pc[i] = "stream"
    /\ LET src == download_file(distros[i])
           dst == save_file(distros[i])
           fds == [tfd EXCEPT ![i] = NoInode]
           gone == Unlinked(dirent, dst)
           moved == [gone EXCEPT ![dst] = dirent[src], ![src] = NoInode]
       IN  IF dirent[src] = NoInode
           THEN /\ dirent' = gone
                /\ isize' = Live(gone, isize, fds)
                /\ task_pc' = [task_pc EXCEPT ![i] = "failed"]
                /\ tfd' = fds
           ELSE /\ dirent' = moved
                /\ isize' = Live(moved, isize, fds)
                /\ task_pc' = [task_pc EXCEPT ![i] = "done"]
                /\ tfd' = fds
    /\ UNCHANGED <<inputs, version_file, pc, locals, exit_code, error,
                   download_url, toff, advanced, marker_writes>>

\* TaskGroup._abort: once a task has failed the group cancels the tasks that
\* are not finished; the CancelledError arrives at the task's await
Cancel(i) ==
    /\ pc = "join"
    /\ \E j \in TaskIds : task_pc[j] = "failed"
    /\ task_pc[i] \in {"get", "stream"}
    /\ task_pc' = [task_pc EXCEPT ![i] = "cancelled"]
    /\ tfd' = [tfd EXCEPT ![i] = NoInode]
    /\ isize' = Live(dirent, isize, [tfd EXCEPT ![i] = NoInode])
    /\ UNCHANGED <<inputs, version_file, dirent, pc, locals, exit_code, error,
                   download_url, toff, advanced, marker_writes>>

AllFinished == \A i \in TaskIds : task_pc[i] \in {"done", "failed", "cancelled"}

\* TaskGroup.__aexit__ with a failed task: the ExceptionGroup leaves main()
JoinFailed ==
    /\ pc = "join"
    /\ AllFinished
    /\ \E i \in TaskIds : task_pc[i] = "failed"
    /\ pc' = "exited"
    /\ exit_code' = <<UncaughtStatus>>
    /\ error' = "ExceptionGroup"
    /\ UNCHANGED <<inputs, version_file, disk, locals, tasks, marker_writes>>

\* the text of lines 249-251; a FactorioVersion is a non-empty tuple and so
\* always true, None is false
MarkerText(dl, req) ==
    ValueStr(IF dl # None THEN dl ELSE req) \o <<"\n">>

\* a join that forgets the failures: the marker is written once no task runs
WriteMarkerLosesFailure ==
    /\ pc = "join"
    /\ AllFinished
    /\ version_file' = File(MarkerText(downloaded_version, requested_version))
    /\ marker_writes' = marker_writes + 1
    /\ pc' = "exited"
    /\ exit_code' = <<ExitStatus(0)>>
    /\ UNCHANGED <<inputs, disk, locals, error, tasks>>

\* a join that waits for the first task only
WriteMarkerEarly ==
    /\ pc = "join"
    /\ \E i \in TaskIds : task_pc[i] = "done"
    /\ version_file' = File(MarkerText(downloaded_version, requested_version))
    /\ marker_writes' = marker_writes + 1
    /\ pc' = "exited"
    /\ exit_code' = <<ExitStatus(0)>>
    /\ UNCHANGED <<inputs, disk, locals, error, tasks>>

\* TaskGroup.__aexit__ with every task done, then lines 249-251; main()
\* returns and the process ends with status 0
WriteMarker ==
    /\ pc = "join"
    /\ \A i \in TaskIds : task_pc[i] = "done"
    /\ version_file' = File(MarkerText(downloaded_version, requested_version))
    /\ marker_writes' = marker_writes + 1
    /\ pc' = "exited"
    /\ exit_code' = <<ExitStatus(0)>>
    /\ UNCHANGED <<inputs, disk, locals, error, tasks>>

\* iter_chunked yields chunks of one or more bytes; one unit stands for a
\* chunk's bytes
ChunkLens == {1}

Next ==
    \/ Reconcile
    \/ UnlinkMarker
    \/ CreateTasks
    \/ \E i \in TaskIds : StartTask(i)
    \/ \E i \in TaskIds : ResponseError(i)
    \/ \E i \in TaskIds : ResponseOK(i)
    \/ \E i \in TaskIds : \E len \in ChunkLens : Chunk(i, len)
    \/ \E i \in TaskIds : StreamError(i)
    \/ \E i \in TaskIds : Finish(i)
    \/ \E i \in TaskIds : Cancel(i)
    \/ JoinFailed
    \/ WriteMarker

\* the program is started again with the same arguments, on the files the
\* run before left, after a run that downloaded everything and wrote
\* version.txt; marker_writes goes on counting over the runs
Rerun ==
    /\ pc = "exited"
    /\ task_pc # <<>>
    /\ \A i \in TaskIds : task_pc[i] = "done"
    /\ marker_writes >= 1
    /\ marker_writes < MaxRuns
    /\ pc' = "main"
    /\ marker0' = version_file
    /\ requested_version' = None
    /\ downloaded_version' = None
    /\ latest_version' = None
    /\ exit_code' = <<>>
    /\ error' = "none"
    /\ task_pc' = <<>>
    /\ download_url' = <<>>
    /\ tfd' = <<>>
    /\ toff' = <<>>
    /\ advanced' = <<>>
    /\ UNCHANGED <<version_str, distros, remote, version_file, disk, marker_writes>>

NextRerun ==
    \/ Next
    \/ Rerun

SpecRerun == Init /\ [][NextRerun]_vars

\* the texts handed to FactorioVersion.from_str by line 167: digits, dots,
\* a sign, a letter
ParseAlphabet == {"1", "2", ".", "-", "x"}

ParseTexts == UNION {[1..n -> ParseAlphabet] : n \in 0..MaxTextLen}

\* a run whose --version is any text of ParseTexts, with no version.txt
InitParse ==
    /\ version_str \in ParseTexts
    /\ distros = DefaultDistros
    /\ remote = [ok |-> FALSE, text |-> <<>>]
    /\ version_file = NoFile
    /\ marker0 = NoFile
    /\ dirent = EmptyDir
    /\ isize = <<>>
    /\ pc = "main"
    /\ requested_version = None
    /\ downloaded_version = None
    /\ latest_version = None
    /\ exit_code = <<>>
    /\ error = "none"
    /\ task_pc = <<>>
    /\ download_url = <<>>
    /\ tfd = <<>>
    /\ toff = <<>>
    /\ advanced = <<>>
    /\ marker_writes = 0

\* main() up to line 197, where line 167 parses --version
NextParse == Reconcile

SpecParse == InitParse /\ [][NextParse]_vars

Spec == Init /\ [][Next]_vars

(***************************************************************************)
(* Properties.  A process that stops where it is, a crash included, is the *)
(* behaviour that stutters from that state on, so an invariant speaks of   *)
(* the files a crash at any point leaves behind.                           *)
(***************************************************************************)
\* version.txt holding the version v, as a completed run leaves it
MarkerOf(v) == File(VersionStr(v) \o <<"\n">>)

\* the endpoint answering with the version v
RemoteOf(v) == [ok |-> TRUE, text |-> VersionStr(v)]

\* the order of versions: by major, then minor, then patch
Older(a, b) ==
    \/ a.major < b.major
    \/ a.major = b.major /\ a.minor < b.minor
    \/ a.major = b.major /\ a.minor = b.minor /\ a.patch < b.patch

Launched == task_pc # <<>>

AllDone == Launched /\ \A i \in TaskIds : task_pc[i] = "done"

SomeFailed == \E i \in TaskIds : task_pc[i] = "failed"

\* no task exists and version.txt is as the run found it
NothingTouched ==
    /\ ~Launched
    /\ version_file = marker0
    /\ marker_writes = 0
    /\ pc \in {"main", "exited"}

\* C1: after a run that downloaded and in which every task succeeded,
\* version.txt holds the version that was downloaded: the explicit version
\* requested, or the endpoint's latest version when "latest" was requested.
C1_MarkerHoldsResolvedVersion ==
    (pc = "exited" /\ AllDone /\ (version_str = LatestText => remote.ok)) =>
        \E v \in Versions :
            /\ version_str = LatestText => remote = RemoteOf(v)
            /\ version_str # LatestText => version_str = VersionStr(v)
            /\ version_file = MarkerOf(v)

\* C2: when a download task has failed, version.txt does not exist and is
\* never written; the run ends only when every task has finished, and it
\* ends in failure.
C2_FailedTaskNoMarker ==
    /\ SomeFailed => ~version_file.exists /\ marker_writes = 0
    /\ (pc = "exited" /\ Launched) => AllFinished
    /\ (pc = "exited" /\ SomeFailed) =>
           /\ exit_code # <<0>>
           /\ error = "ExceptionGroup"

C2_Witness ==
    /\ pc = "exited"
    /\ marker0.exists
    /\ \E i, j \in TaskIds : task_pc[i] = "failed" /\ task_pc[j] = "done"

\* C3: from the creation of the download tasks until the marker is written
\* at the end, version.txt does not exist, whatever it held at the start.
C3_MarkerAbsentDuringDownloads ==
    /\ pc \in {"spawn", "join"} => ~version_file.exists
    /\ (Launched /\ marker_writes = 0) => ~version_file.exists

C3_Witness ==
    /\ marker0.exists
    /\ pc = "join"
    /\ \E i, j \in TaskIds : task_pc[i] = "stream" /\ task_pc[j] = "failed"

\* C4: the URL of every download task names a concrete version, never the
\* token "latest".
C4_UrlsNameConcreteVersion ==
    \A i \in TaskIds :
        download_url[i] # None =>
            /\ download_url[i].version # LatestText
            /\ from_str_ok(download_url[i].version)

\* C5: version.txt is written at most once; it is written only when every
\* task is done and every final file is in place, and a run whose tasks all
\* succeeded has written it exactly once.
C5_OneMarkerWriteAfterAllRenames ==
    /\ marker_writes <= 1
    /\ (Launched /\ (marker_writes > 0 \/ version_file.exists)) =>
           /\ AllDone
           /\ \A i \in TaskIds : dirent[save_file(distros[i])] # NoInode
    /\ (pc = "exited" /\ AllDone) => marker_writes = 1 /\ version_file.exists

C5_Witness ==
    /\ pc = "exited"
    /\ marker_writes = 1
    /\ Len(task_pc) > 1
    /\ \A i \in TaskIds : advanced[i] > 0

\* C6: the version.txt a run has written holds a version that
\* get_downloaded_version can read back.
C6_WrittenMarkerParses ==
    (pc = "exited" /\ marker_writes > 0) =>
        /\ get_downloaded_version(version_file).err = "none"
        /\ get_downloaded_version(version_file).val # None

\* C7: "latest" requested, version.txt holding m, the endpoint answering with
\* a version older than m: no task is launched, version.txt stays as it was,
\* and the run exits with a status that is not 0.
C7_RemoteOlderIsAnomaly ==
    \A m, r \in Versions :
        (/\ version_str = LatestText
         /\ marker0 = MarkerOf(m)
         /\ remote = RemoteOf(r)
         /\ Older(r, m)) =>
            /\ NothingTouched
            /\ pc = "exited" =>
                   /\ error = "none"
                   /\ Len(exit_code) = 1
                   /\ exit_code[1] # 0

C7_Witness ==
    /\ pc = "exited"
    /\ version_str = LatestText
    /\ marker0 = MarkerOf(FactorioVersion(1, 1, 1))
    /\ remote = RemoteOf(FactorioVersion(1, 1, 0))
    /\ exit_code = <<246>>

\* C8: without version.txt at the start, a run for "latest" or for an
\* explicit version never ends before it has launched its download tasks.
C8_NoMarkerProceeds ==
    (/\ marker0 = NoFile
     /\ version_str \in {LatestText} \cup {VersionStr(v) : v \in Versions}
     /\ pc = "exited") =>
        /\ Launched
        /\ \A i \in TaskIds : download_url[i] # None

C8_Witness ==
    /\ marker0 = NoFile
    /\ version_str = LatestText
    /\ ~remote.ok
    /\ pc = "exited"
    /\ AllDone

\* C9: version.txt holding the explicitly requested version: no task is
\* launched, version.txt stays as it was, and the run exits with status 0.
C9_AlreadySatisfied ==
    \A v \in Versions :
        (version_str = VersionStr(v) /\ marker0 = MarkerOf(v)) =>
            /\ NothingTouched
            /\ pc = "exited" => exit_code = <<0>> /\ error = "none"

C9_Witness ==
    /\ pc = "exited"
    /\ \E v \in Versions : version_str = VersionStr(v) /\ marker0 = MarkerOf(v)

\* C10: "latest" requested, version.txt holding the version the endpoint
\* answers with: no task is launched, version.txt stays as it was, and the
\* run exits with status 0.
C10_AlreadyUpToDate ==
    \A v \in Versions :
        (/\ version_str = LatestText
         /\ marker0 = MarkerOf(v)
         /\ remote = RemoteOf(v)) =>
            /\ NothingTouched
            /\ pc = "exited" => exit_code = <<0>> /\ error = "none"

C10_Witness ==
    /\ pc = "exited"
    /\ version_str = LatestText
    /\ \E v \in Versions : marker0 = MarkerOf(v) /\ remote = RemoteOf(v)

\* the file a path names and its size, NoInode and 0 when it names none
Held(dir, sz, p) ==
    [inode |-> dir[p], size |-> IF dir[p] = NoInode THEN 0 ELSE sz[dir[p]]]

\* C11: the steps of a task up to and including the failure of its request
\* (session.get or raise_for_status raising) leave the task's final path
\* naming the same file with the same bytes; the task ends failed.
C11_HttpFailureLeavesFinalFile ==
    [][\A i \in DOMAIN task_pc :
          (/\ task_pc[i] \in {"created", "get"}
           /\ task_pc'[i] \in {"get", "failed"}
           /\ task_pc'[i] # task_pc[i]) =>
              Held(dirent', isize', save_file(distros[i]))
                  = Held(dirent, isize, save_file(distros[i]))]_vars

C11_Witness ==
    /\ distros = DefaultDistros
    /\ Launched
    /\ task_pc[1] = "failed"
    /\ dirent[download_file(distros[1])] = NoInode
    /\ Held(dirent, isize, save_file(distros[1])) = [inode |-> -1, size |-> 2]

\* C12: at the step by which a task becomes done, its final path names a
\* file, its temporary path names none, and the final file's size is the sum
\* of the amounts the task advanced its progress by.
C12_CompletedTaskFileMatchesProgress ==
    [][\A i \in DOMAIN task_pc :
          (task_pc[i] # "done" /\ task_pc'[i] = "done") =>
              /\ dirent'[save_file(distros[i])] # NoInode
              /\ dirent'[download_file(distros[i])] = NoInode
              /\ Held(dirent', isize', save_file(distros[i])).size
                     = advanced'[i]]_vars

\* the exceptions of a failed lookup: the network, the body, the key, the
\* version string
LookupFailures == {"ClientError", "ContentTypeError", "KeyError", "ValueError"}

\* C13: "latest" requested, version.txt holding a version, the endpoint
\* without a usable answer: the run ends with the lookup's exception, no task
\* is ever launched, and version.txt and the artifact files stay as found.
C13_LookupFailureTouchesNothing ==
    /\ [](\A m \in Versions :
            (version_str = LatestText /\ marker0 = MarkerOf(m) /\ ~remote.ok) =>
                /\ NothingTouched
                /\ \E d \in Disks : dirent = d.dirent /\ isize = d.isize
                /\ pc = "exited" =>
                       /\ error \in LookupFailures
                       /\ exit_code # <<0>>)
    /\ [][pc = "main" =>
            /\ dirent' = dirent
            /\ isize' = isize
            /\ version_file' = version_file
            /\ task_pc' = <<>>]_vars

C13_Witness ==
    /\ pc = "exited"
    /\ version_str = LatestText
    /\ marker0 = MarkerOf(VersionPool[1])
    /\ ~remote.ok
    /\ error = "KeyError"
    /\ Held(dirent, isize, save_file("win64")) = [inode |-> -1, size |-> 2]
    /\ Held(dirent, isize, download_file("win64")) = [inode |-> -2, size |-> 1]

\* exactly three fields between dots, each one or more digits
ThreeNumericFields(s) ==
    LET fields == SplitOn(s, ".")
    IN  /\ Len(fields) = 3
        /\ \A i \in 1..3 :
              /\ fields[i] # <<>>
              /\ \A k \in 1..Len(fields[i]) : IsDigit(fields[i][k])

\* C14: from_str returns a version exactly for the texts of three numeric
\* fields, and the version it returns has no negative component.
C14_ParseAcceptsOnlyNonNegativeTriples ==
    pc # "main" =>
        /\ (requested_version # None) <=> ThreeNumericFields(version_str)
        /\ (requested_version # None) =>
               /\ requested_version.major >= 0
               /\ requested_version.minor >= 0
               /\ requested_version.patch >= 0

\* C15: no two tasks of a run have the same file open, and no two tasks of a
\* run that have left their first step work on the same pair of paths.
C15_OneWriterPerFile ==
    \A i, j \in TaskIds :
        i # j =>
            /\ (tfd[i] # NoInode /\ tfd[j] # NoInode) => tfd[i] # tfd[j]
            /\ (task_pc[i] \in {"get", "stream"} /\ task_pc[j] \in {"get", "stream"}) =>
                   download_file(distros[i]) # download_file(distros[j])

\* C16: an explicit version v requested, version.txt holding another
\* version m, older or newer: the endpoint is not queried, the run launches
\* its tasks for v and never ends with the anomaly status; a run that ends
\* with the anomaly status was one for "latest".
C16_ExplicitRequestIsTrusted ==
    /\ \A v, m \in Versions :
          (v # m /\ version_str = VersionStr(v) /\ marker0 = MarkerOf(m)) =>
              /\ latest_version = None
              /\ pc # "main" => requested_version = v
              /\ pc = "exited" =>
                     /\ Launched
                     /\ \A i \in TaskIds :
                            /\ download_url[i] # None
                            /\ download_url[i].version = VersionStr(v)
                     /\ exit_code # <<246>>
    /\ (pc = "exited" /\ exit_code = <<246>>) => version_str = LatestText

C16_Witness ==
    /\ version_str = VersionStr(VersionPool[1])
    /\ marker0 = MarkerOf(VersionPool[2])
    /\ ~remote.ok
    /\ pc = "exited"
    /\ AllDone

\* C17: version.txt present but holding no version: the run ends with the
\* parse error of from_str (ValueError) before any task is launched, and
\* version.txt and the artifact files stay as found.
C17_MalformedMarkerIsParseError ==
    (marker0.exists /\ get_downloaded_version(marker0).err # "none") =>
        /\ NothingTouched
        /\ \E d \in Disks : dirent = d.dirent /\ isize = d.isize
        /\ pc = "exited" =>
               /\ error = "ValueError"
               /\ exit_code # <<0>>

\* a run that follows a run that downloaded everything
InLaterRun ==
    /\ marker_writes >= 1
    /\ ~(pc = "exited" /\ AllDone /\ marker_writes = 1)

\* C18: the run that follows a successful download with the same request and
\* the same answer of the endpoint launches no task and exits with status 0.
C18_RerunDoesNothing ==
    InLaterRun =>
        /\ ~Launched
        /\ pc \in {"main", "exited"}
        /\ pc = "exited" => exit_code = <<0>> /\ error = "none"

\* C19: a final path names no file, the artifact found at the start, or a
\* file whose task has streamed its whole body and is done: no task has the
\* file open, and its size is what that task wrote.
C19_FinalFilesAreComplete ==
    \A d \in DistroSet :
        LET f == Held(dirent, isize, save_file(d))
        IN  /\ \A i \in TaskIds : f.inode # NoInode => tfd[i] # f.inode
            /\ f.inode > 0 =>
                   /\ task_pc[f.inode] = "done"
                   /\ f.size = advanced[f.inode]

====
